---- MODULE Spec2Model ----
(***************************************************************************)
(* Model of app.py: a Flask task list backed by one sqlite table.          *)
(*                                                                         *)
(* Two specifications share the table:                                     *)
(*   Spec      every request handler runs to completion as one step        *)
(*             (requests handled one at a time);                           *)
(*   ConcSpec  request threads interleave at the statement level           *)
(*             (connect / execute / commit / close) under sqlite's         *)
(*             file locks.                                                 *)
(***************************************************************************)
EXTENDS Integers, Sequences, FiniteSets, TLC

\* ---------------------------------------------------------------- bounds
\* number of INSERTs a behaviour may perform (caps the AUTOINCREMENT counter)
MaxAdds == 3
\* sqlite stores INTEGER as a signed 64-bit value; the model keeps the signed
\* width but scales it down to IntBits bits so that an id beyond it can be
\* enumerated.  Ids handed out by AUTOINCREMENT stay below it (MaxAdds).
IntBits == 4
\* number of request threads of ConcSpec
NumThreads == 2

SqliteIntMax == 2^(IntBits - 1) - 1

\* ---------------------------------------------------------------- inputs
FormFields == {"title", "description"}
FormValues == {"", "a", "b"}
\* request.form: any subset of the two fields may be present in a POST body
Forms == UNION {[S -> FormValues] : S \in SUBSET FormFields}
\* <int:task_id> accepts every non-negative decimal, of any size
TaskIds == (0 .. MaxAdds + 1) \cup {SqliteIntMax, SqliteIntMax + 1}

NoForm == <<>>
NoId == -1

Threads == 1 .. NumThreads
NoRequest == [route |-> "none", form |-> NoForm, task_id |-> NoId]
NoTxn == [active |-> FALSE, tasks |-> {}, seq |-> 0]
\* the requests of ConcSpec: those whose handler calls the repository
ConcRequests ==
    {[route |-> "add", form |-> [title |-> "a", description |-> ""], task_id |-> NoId],
     [route |-> "index", form |-> NoForm, task_id |-> NoId]}
    \cup {[route |-> rt, form |-> NoForm, task_id |-> i] :
             rt \in {"complete", "delete"}, i \in {1, 2, SqliteIntMax + 1}}

VARIABLES
    tasks,      \* rows of table tasks: records [id, title, description, completed]
    seq,        \* sqlite_sequence entry of tasks (largest rowid ever assigned)
    log,        \* history: the ids in the order add_task created them
    request,    \* Spec: the request handled last
    response,   \* Spec: the answer to it
    prev,       \* Spec: the table and sequence before that request
    lastConn,   \* Spec: state of the connection the request opened, at its end
    pc,         \* ConcSpec: where each request thread stands in its repository call
    req,        \* ConcSpec: the request each thread is handling
    txn,        \* ConcSpec: each connection's open transaction (uncommitted image)
    rows,       \* ConcSpec: the rows each thread's cursor has read
    writer,     \* ConcSpec: the thread whose connection holds the RESERVED lock, 0 if none
    pendingLock,\* ConcSpec: the lock holder went on to PENDING (a commit that timed out)
    readers,    \* ConcSpec: the threads whose connection holds a SHARED lock
    serial,     \* history: the database got by running the committed requests one at a time
    completedIds \* history: the ids of the tasks a committed complete request found

seqvars == <<request, response, prev, lastConn>>
concvars == <<pc, req, txn, rows, writer, pendingLock, readers, serial, completedIds>>
vars == <<tasks, seq, log, request, response, prev, lastConn,
          pc, req, txn, rows, writer, pendingLock, readers, serial, completedIds>>

\* ------------------------------------------------------------ the table
Ids(t) == {r.id : r \in t}

MaxRowid(t) == IF t = {} THEN 0 ELSE CHOOSE m \in Ids(t) : \A i \in Ids(t) : i <= m

\* mutant: INTEGER PRIMARY KEY without AUTOINCREMENT (largest rowid present + 1)
NextRowid_NoAutoincrement(t, s) == MaxRowid(t) + 1

\* INTEGER PRIMARY KEY AUTOINCREMENT: one more than the largest rowid that
\* was ever in the table, which sqlite_sequence remembers across deletes
NextRowid(t, s) == (IF s >= MaxRowid(t) THEN s ELSE MaxRowid(t)) + 1

\* sqlite3 binds a Python int as a 64-bit INTEGER and raises OverflowError
\* when it does not fit
BindsAsInteger(v) == v <= SqliteIntMax

\* mutant: the two parameters bound in the wrong order
InsertTask_Swapped(t, s, title, description) ==
    t \cup {[id |-> NextRowid(t, s), title |-> description,
             description |-> title, completed |-> 0]}

\* INSERT INTO tasks (title, description) VALUES (?, ?)
InsertTask(t, s, title, description) ==
    t \cup {[id |-> NextRowid(t, s), title |-> title,
             description |-> description, completed |-> 0]}

\* mutant: the toggle policy, SET completed = NOT completed
UpdateCompleted_Toggle(t, task_id) ==
    {IF r.id = task_id THEN [r EXCEPT !.completed = 1 - r.completed] ELSE r : r \in t}

\* mutant: the WHERE clause left out
UpdateCompleted_NoWhere(t, task_id) ==
    {[r EXCEPT !.completed = 1] : r \in t}

\* UPDATE tasks SET completed = 1 WHERE id = ?
UpdateCompleted(t, task_id) ==
    {IF r.id = task_id THEN [r EXCEPT !.completed = 1] ELSE r : r \in t}

\* mutant: the delete is never committed
DeleteRow_Uncommitted(t, task_id) == t

\* DELETE FROM tasks WHERE id = ?
DeleteRow(t, task_id) == {r \in t : r.id # task_id}

\* mutant: ORDER BY id (ascending)
RECURSIVE OrderByIdAsc(_)
OrderByIdAsc(t) ==
    IF t = {} THEN <<>>
    ELSE LET first == CHOOSE r \in t : \A q \in t : q.id >= r.id
         IN  <<first>> \o OrderByIdAsc(t \ {first})

RECURSIVE OrderByIdDesc(_)
OrderByIdDesc(t) ==
    IF t = {} THEN <<>>
    ELSE LET first == CHOOSE r \in t : \A q \in t : q.id <= r.id
         IN  <<first>> \o OrderByIdDesc(t \ {first})

\* -------------------------------------------- repository functions
\* Each returns the outcome of one call on the database db = [tasks, seq]:
\* the database after it, the exception it raised ("" for none), the state
\* of its connection when it is left, and the rows it returned.
Returned(t, s, result) ==
    [tasks |-> t, seq |-> s, raised |-> "", conn |-> "closed", rows |-> result]

\* an exception in execute() or commit() leaves the function before
\* conn.close(): nothing is committed and the connection stays open
Raised(db, exc) ==
    [tasks |-> db.tasks, seq |-> db.seq, raised |-> exc, conn |-> "open", rows |-> <<>>]

init_db(db) == Returned(db.tasks, db.seq, <<>>)

get_tasks(db) == Returned(db.tasks, db.seq, OrderByIdDesc(db.tasks))

add_task(db, title, description) ==
    Returned(InsertTask(db.tasks, db.seq, title, description),
             NextRowid(db.tasks, db.seq), <<>>)

complete_task(db, task_id) ==
    IF BindsAsInteger(task_id)
    THEN Returned(UpdateCompleted(db.tasks, task_id), db.seq, <<>>)
    ELSE Raised(db, "OverflowError")

delete_task(db, task_id) ==
    IF BindsAsInteger(task_id)
    THEN Returned(DeleteRow(db.tasks, task_id), db.seq, <<>>)
    ELSE Raised(db, "OverflowError")

\* ------------------------------------------------------ route handlers
Db == [tasks |-> tasks, seq |-> seq]

Page(listing) == [status |-> 200, location |-> "", tasks |-> listing]
Redirect == [status |-> 302, location |-> "/", tasks |-> <<>>]
NoResponse == [status |-> 0, location |-> "", tasks |-> <<>>]
Error(code) == [status |-> code, location |-> "", tasks |-> <<>>]

\* the handler's answer once the repository call came back
Answer(out, ok) == IF out.raised = "" THEN ok ELSE Error(500)

Handled(rq, out, ok) ==
    /\ tasks' = out.tasks
    /\ seq' = out.seq
    /\ request' = rq
    /\ response' = Answer(out, ok)
    /\ prev' = Db
    /\ lastConn' = out.conn
    /\ UNCHANGED concvars

\* a handler that never reaches the repository
Unhandled(rq, resp) ==
    /\ UNCHANGED <<tasks, seq, log>>
    /\ request' = rq
    /\ response' = resp
    /\ prev' = Db
    /\ lastConn' = "none"
    /\ UNCHANGED concvars

\* if __name__ == '__main__': init_db()
Startup ==
    /\ Handled([route |-> "init_db", form |-> NoForm, task_id |-> NoId],
               init_db(Db), NoResponse)
    /\ UNCHANGED log

\* GET /
index ==
    LET out == get_tasks(Db)
    IN  /\ Handled([route |-> "index", form |-> NoForm, task_id |-> NoId],
                   out, Page(out.rows))
        /\ UNCHANGED log

\* POST /add
add(form) ==
    LET rq == [route |-> "add", form |-> form, task_id |-> NoId]
    IN  IF ~ (FormFields \subseteq DOMAIN form)
        THEN \* request.form[...] raises BadRequestKeyError
             Unhandled(rq, Error(400))
        ELSE IF form["title"] # ""
        THEN /\ Len(log) < MaxAdds
             /\ Handled(rq, add_task(Db, form["title"], form["description"]), Redirect)
             /\ log' = Append(log, NextRowid(tasks, seq))
        ELSE Unhandled(rq, Redirect)

\* GET /complete/<int:task_id>
complete(task_id) ==
    /\ Handled([route |-> "complete", form |-> NoForm, task_id |-> task_id],
               complete_task(Db, task_id), Redirect)
    /\ UNCHANGED log

\* GET /delete/<int:task_id>
delete(task_id) ==
    /\ Handled([route |-> "delete", form |-> NoForm, task_id |-> task_id],
               delete_task(Db, task_id), Redirect)
    /\ UNCHANGED log

Init ==
    /\ tasks = {}
    /\ seq = 0
    /\ log = <<>>
    /\ request = [route |-> "init_db", form |-> NoForm, task_id |-> NoId]
    /\ response = NoResponse
    /\ prev = [tasks |-> {}, seq |-> 0]
    /\ lastConn = "closed"
    /\ pc = [p \in Threads |-> "idle"]
    /\ req = [p \in Threads |-> NoRequest]
    /\ txn = [p \in Threads |-> NoTxn]
    /\ rows = [p \in Threads |-> <<>>]
    /\ writer = 0
    /\ pendingLock = FALSE
    /\ readers = {}
    /\ serial = [tasks |-> {}, seq |-> 0]
    /\ completedIds = {}

Next ==
    \/ Startup
    \/ index
    \/ \E form \in Forms : add(form)
    \/ \E task_id \in TaskIds : complete(task_id)
    \/ \E task_id \in TaskIds : delete(task_id)

Spec == Init /\ [][Next]_vars

\* ------------------------------------------- request threads (ConcSpec)
\* The development server handles each request on a thread of its own.  A
\* thread runs its handler's repository call statement by statement; sqlite's
\* locks on tasks.db decide which statements may proceed.  A statement that
\* finds the file locked either waits (takes no step) or, when the busy
\* timeout runs out, raises OperationalError.

\* the next request is dispatched to the repository: sqlite3.connect()
Dispatch(p, r) ==
    /\ pc[p] = "idle"
    /\ r.route = "add" => Len(log) + Cardinality({q \in Threads : req[q].route = "add"}) < MaxAdds
    /\ pc' = [pc EXCEPT ![p] = "connected"]
    /\ req' = [req EXCEPT ![p] = r]
    /\ UNCHANGED <<tasks, seq, log, txn, rows, writer, pendingLock, readers,
                   serial, completedIds, seqvars>>

\* the statement of request r run on the committed database
Statement(r, t, s) ==
    IF r.route = "add"
    THEN [active |-> TRUE,
          tasks |-> InsertTask(t, s, r.form["title"], r.form["description"]),
          seq |-> NextRowid(t, s)]
    ELSE IF r.route = "complete"
    THEN [active |-> TRUE, tasks |-> UpdateCompleted(t, r.task_id), seq |-> s]
    ELSE [active |-> TRUE, tasks |-> DeleteRow(t, r.task_id), seq |-> s]

IsWrite(r) == r.route \in {"add", "complete", "delete"}
BindsOk(r) == r.route \in {"complete", "delete"} => BindsAsInteger(r.task_id)

\* mutant: no lock taken before writing
CanReserve_Unlocked(p) == TRUE

\* a connection gets the RESERVED lock when no other connection holds it
CanReserve(p) == writer = 0
\* a connection gets a SHARED lock unless the lock holder is PENDING
CanShare(p) == ~ pendingLock
\* a commit gets the EXCLUSIVE lock once no other connection is reading
CanCommit(p) == readers \ {p} = {}

\* c.execute(INSERT / UPDATE / DELETE): opens the implicit transaction and
\* runs the statement under the RESERVED lock
ExecuteWrite(p) ==
    /\ pc[p] = "connected"
    /\ IsWrite(req[p])
    /\ BindsOk(req[p])
    /\ CanReserve(p)
    /\ writer' = p
    /\ txn' = [txn EXCEPT ![p] = Statement(req[p], tasks, seq)]
    /\ pc' = [pc EXCEPT ![p] = "executed"]
    /\ UNCHANGED <<tasks, seq, log, req, rows, pendingLock, readers,
                   serial, completedIds, seqvars>>

\* c.execute(SELECT): steps the statement under a SHARED lock, which is held
\* until the cursor is exhausted (at once when there is no row)
ExecuteSelect(p) ==
    /\ pc[p] = "connected"
    /\ req[p].route = "index"
    /\ CanShare(p)
    /\ rows' = [rows EXCEPT ![p] = OrderByIdDesc(tasks)]
    /\ readers' = IF tasks = {} THEN readers ELSE readers \cup {p}
    /\ pc' = [pc EXCEPT ![p] = "executed"]
    /\ UNCHANGED <<tasks, seq, log, req, txn, writer, pendingLock,
                   serial, completedIds, seqvars>>

\* c.execute raises: the parameter does not fit (OverflowError) or the file
\* stayed locked (OperationalError).  conn.close() is not reached.
ExecuteRaises(p) ==
    /\ pc[p] = "connected"
    /\ \/ ~ BindsOk(req[p])
       \/ IsWrite(req[p]) /\ BindsOk(req[p]) /\ ~ CanReserve(p)
       \/ req[p].route = "index" /\ ~ CanShare(p)
    /\ pc' = [pc EXCEPT ![p] = "raised"]
    /\ UNCHANGED <<tasks, seq, log, req, txn, rows, writer, pendingLock, readers,
                   serial, completedIds, seqvars>>

\* tasks = c.fetchall(): the cursor is exhausted, the SHARED lock released
Fetch(p) ==
    /\ pc[p] = "executed"
    /\ req[p].route = "index"
    /\ readers' = readers \ {p}
    /\ pc' = [pc EXCEPT ![p] = "committed"]
    /\ UNCHANGED <<tasks, seq, log, req, txn, rows, writer, pendingLock,
                   serial, completedIds, seqvars>>

\* the database got by running request r alone, as one call
RunAlone(r, db) ==
    LET out == IF r.route = "add"
               THEN add_task(db, r.form["title"], r.form["description"])
               ELSE IF r.route = "complete" THEN complete_task(db, r.task_id)
               ELSE delete_task(db, r.task_id)
    IN  [tasks |-> out.tasks, seq |-> out.seq]

\* conn.commit(): the transaction's image becomes the database
Commit(p) ==
    /\ pc[p] = "executed"
    /\ IsWrite(req[p])
    /\ CanCommit(p)
    /\ tasks' = txn[p].tasks
    /\ seq' = txn[p].seq
    /\ log' = IF req[p].route = "add" THEN Append(log, txn[p].seq) ELSE log
    /\ txn' = [txn EXCEPT ![p] = NoTxn]
    /\ writer' = IF writer = p THEN 0 ELSE writer
    /\ pc' = [pc EXCEPT ![p] = "committed"]
    /\ serial' = RunAlone(req[p], serial)
    /\ completedIds' = IF req[p].route = "complete" /\ req[p].task_id \in Ids(tasks)
                       THEN completedIds \cup {req[p].task_id} ELSE completedIds
    /\ UNCHANGED <<req, rows, pendingLock, readers, seqvars>>

\* conn.commit() raises OperationalError: a reader kept its SHARED lock until
\* the busy timeout ran out.  The transaction stays open on the connection,
\* which now holds the PENDING lock, and conn.close() is not reached.
CommitRaises(p) ==
    /\ pc[p] = "executed"
    /\ IsWrite(req[p])
    /\ ~ CanCommit(p)
    /\ pendingLock' = TRUE
    /\ pc' = [pc EXCEPT ![p] = "raised"]
    /\ UNCHANGED <<tasks, seq, log, req, txn, rows, writer, readers,
                   serial, completedIds, seqvars>>

\* conn.close() and the handler's return
Close(p) ==
    /\ pc[p] = "committed"
    /\ pc' = [pc EXCEPT ![p] = "idle"]
    /\ req' = [req EXCEPT ![p] = NoRequest]
    /\ rows' = [rows EXCEPT ![p] = <<>>]
    /\ UNCHANGED <<tasks, seq, log, txn, writer, pendingLock, readers,
                   serial, completedIds, seqvars>>

\* the connection an exception left open is deallocated at some later time:
\* sqlite rolls its transaction back and drops its locks
Finalize(p) ==
    /\ pc[p] = "raised"
    /\ pc' = [pc EXCEPT ![p] = "idle"]
    /\ req' = [req EXCEPT ![p] = NoRequest]
    /\ txn' = [txn EXCEPT ![p] = NoTxn]
    /\ rows' = [rows EXCEPT ![p] = <<>>]
    /\ writer' = IF writer = p THEN 0 ELSE writer
    /\ pendingLock' = IF writer = p THEN FALSE ELSE pendingLock
    /\ readers' = readers \ {p}
    /\ UNCHANGED <<tasks, seq, log, serial, completedIds, seqvars>>

ConcNext ==
    \E p \in Threads :
        \/ \E r \in ConcRequests : Dispatch(p, r)
        \/ ExecuteWrite(p)
        \/ ExecuteSelect(p)
        \/ ExecuteRaises(p)
        \/ Fetch(p)
        \/ Commit(p)
        \/ CommitRaises(p)
        \/ Close(p)
        \/ Finalize(p)

ConcSpec == Init /\ [][ConcNext]_vars

\* ================================================================ claims
Range(s) == {s[i] : i \in 1 .. Len(s)}

Listing == get_tasks(Db).rows
ListingBefore == get_tasks(prev).rows

IsAdd == request.route = "add"
IsComplete == request.route = "complete"
IsDelete == request.route = "delete"
\* the add request reached add_task: both fields present, title non-empty
CallsAddTask ==
    /\ IsAdd
    /\ FormFields \subseteq DOMAIN request.form
    /\ request.form["title"] # ""

\* C1: add_task(title, description) with a non-empty title, followed by
\* get_tasks, returns the previous tasks plus exactly one new task, which
\* carries the given title and description and completed = 0.
C1_AddThenList ==
    CallsAddTask =>
        LET new == Range(Listing) \ Range(ListingBefore)
        IN  /\ Range(ListingBefore) \subseteq Range(Listing)
            /\ Len(Listing) = Len(ListingBefore) + 1
            /\ Cardinality(new) = 1
            /\ \A r \in new :
                  /\ r.title = request.form["title"]
                  /\ r.description = request.form["description"]
                  /\ r.completed = 0
                  /\ r.id \notin Ids(prev.tasks)

\* an add with a description different from its title, onto a non-empty table
C1_Witness ==
    /\ CallsAddTask
    /\ request.form["title"] # request.form["description"]
    /\ prev.tasks # {}
    /\ Cardinality(tasks) = Cardinality(prev.tasks) + 1

\* C2: after delete_task(id) the listing holds no task with that id, whether
\* or not one existed before, and a second delete_task(id) leaves the store
\* exactly as the first one left it.
C2_DeleteIdempotent ==
    IsDelete =>
        /\ \A i \in 1 .. Len(Listing) : Listing[i].id # request.task_id
        /\ delete_task(Db, request.task_id).tasks = tasks
        /\ delete_task(Db, request.task_id).seq = seq

\* a delete that removed a row while other rows stayed
C2_Witness ==
    /\ IsDelete
    /\ request.task_id \in Ids(prev.tasks)
    /\ tasks # {}

\* C3: complete_task(id) on an existing task leaves completed = 1 whatever
\* the value before, also when applied again, and no request ever turns a
\* row's completed flag from 1 back to 0.
C3_CompleteOneWay ==
    /\ IsComplete /\ request.task_id \in Ids(prev.tasks) =>
          /\ \E r \in tasks : r.id = request.task_id
          /\ \A r \in tasks : r.id = request.task_id => r.completed = 1
          /\ complete_task(Db, request.task_id).tasks = tasks
    /\ \A r \in prev.tasks : \A q \in tasks :
          r.id = q.id /\ r.completed = 1 => q.completed = 1

\* complete applied to a task that was completed already
C3_Witness ==
    /\ IsComplete
    /\ \E r \in prev.tasks : r.id = request.task_id /\ r.completed = 1

\* position of the latest creation of id in the creation history
Created(id) == CHOOSE i \in 1 .. Len(log) : log[i] = id /\ \A j \in i + 1 .. Len(log) : log[j] # id

\* C4: get_tasks returns the surviving tasks newest first: of any two tasks
\* in the listing the one created later comes earlier, and the listing is
\* exactly the surviving rows.
C4_NewestFirst ==
    /\ Range(Listing) = tasks
    /\ Len(Listing) = Cardinality(tasks)
    /\ \A i \in 1 .. Len(Listing) : Listing[i].id \in Range(log)
    /\ \A i, j \in 1 .. Len(Listing) :
          i < j => Created(Listing[i].id) > Created(Listing[j].id)
    /\ request.route = "index" => response.tasks = Listing

\* the page was rendered with two or more tasks after one had been deleted
C4_Witness ==
    /\ request.route = "index"
    /\ Len(response.tasks) >= 2
    /\ Len(log) > Len(response.tasks)

\* C5: a POST /add whose title is empty leaves the table as it was and is
\* answered with a redirect to the listing.
C5_EmptyTitleRedirects ==
    (IsAdd /\ "title" \in DOMAIN request.form /\ request.form["title"] = "") =>
        /\ tasks = prev.tasks
        /\ seq = prev.seq
        /\ response = Redirect

\* C6: a complete or delete request for an id that is not in the table
\* leaves the table as it was and is answered with the redirect.
C6_UnknownIdNoOp ==
    ((IsComplete \/ IsDelete) /\ request.task_id \notin Ids(prev.tasks)) =>
        /\ tasks = prev.tasks
        /\ seq = prev.seq
        /\ response = Redirect

\* C7: no two rows share an id, the ids in the table change only by the one
\* id an add creates and the one a delete removes, and an id that add_task
\* assigned is never assigned again, even after its row was deleted.
C7_IdsUniqueNeverReused ==
    /\ \A r, q \in tasks : r.id = q.id => r = q
    /\ \A i, j \in 1 .. Len(log) : i # j => log[i] # log[j]
    /\ Ids(tasks) \subseteq Range(log)
    /\ IsComplete => Ids(tasks) = Ids(prev.tasks)
    /\ IsDelete => Ids(tasks) = Ids(prev.tasks) \ {request.task_id}
    /\ CallsAddTask => Ids(tasks) = Ids(prev.tasks) \cup {log[Len(log)]}

\* an add after the row with the highest id had been deleted
C7_Witness ==
    /\ CallsAddTask
    /\ prev.seq > MaxRowid(prev.tasks)
    /\ Cardinality(tasks) = Cardinality(prev.tasks) + 1

\* C8: when a repository operation has finished, with or without an
\* exception, the connection it opened is closed.
C8_ConnectionReleased == lastConn # "open"

\* C9: a mutation changes only its target.  complete_task changes nothing
\* but the completed flag of row id, delete_task leaves every other row as
\* it was, add_task leaves every existing row as it was; so title and
\* description of a row never change while it exists.
C9_Frame ==
    /\ IsComplete =>
          /\ Cardinality(tasks) = Cardinality(prev.tasks)
          /\ \A r \in prev.tasks :
                IF r.id = request.task_id
                THEN \E q \in tasks : /\ q.id = r.id
                                      /\ q.title = r.title
                                      /\ q.description = r.description
                ELSE r \in tasks
    /\ IsDelete =>
          /\ tasks \subseteq prev.tasks
          /\ \A r \in prev.tasks : r.id # request.task_id => r \in tasks
    /\ IsAdd => prev.tasks \subseteq tasks
    /\ \A r \in prev.tasks : \A q \in tasks :
          r.id = q.id => r.title = q.title /\ r.description = q.description

\* a complete of one row while other rows were not completed
C9_Witness ==
    /\ IsComplete
    /\ request.task_id \in Ids(prev.tasks)
    /\ \E r \in tasks : r.id # request.task_id /\ r.completed = 0
    /\ tasks # prev.tasks

\* C10: requests handled concurrently take effect one whole statement at a
\* time: in every interleaving the table equals the one got by running the
\* committed requests one at a time, in the order of their commits; adds
\* running at the same time get distinct ids and a committed complete is not
\* lost (its task is completed or deleted).
C10_Serializable ==
    /\ tasks = serial.tasks
    /\ seq = serial.seq
    /\ \A r, q \in tasks : r.id = q.id => r = q
    /\ \A i, j \in 1 .. Len(log) : i # j => log[i] # log[j]
    /\ \A id \in completedIds : \A r \in tasks : r.id = id => r.completed = 1

\* two adds were in the repository at the same time and both committed,
\* next to a committed complete
C10_Witness ==
    /\ \E p, q \in Threads :
          /\ p # q
          /\ pc[p] = "committed" /\ req[p].route = "add"
          /\ pc[q] = "committed" /\ req[q].route = "add"
    /\ Cardinality(tasks) >= 2
    /\ completedIds \cap Ids(tasks) # {}

TypeOK ==
    /\ \A r \in tasks : r.id \in 1 .. MaxAdds /\ r.completed \in {0, 1}
    /\ seq \in 0 .. MaxAdds
    /\ writer \in {0} \cup Threads
    /\ readers \subseteq Threads
    /\ pendingLock => writer # 0
====
